---- MODULE Spec2Model ----
(***************************************************************************)
(* Model of the setlike crate (src/lib.rs): the Setlike<T> trait and its   *)
(* four adapters, HashSet, BitSet, BTreeSet and bloom::BloomFilter.        *)
(*                                                                         *)
(* Every adapter method forwards to the native method of the collection.   *)
(* The native collections are modelled by their representation:            *)
(*   HashSet     a record of the allocated capacity and the stored items   *)
(*   BitSet      the bit vector, a sequence of booleans (bit i at i + 1)   *)
(*   BTreeSet    the strictly increasing sequence of the keys              *)
(*   BloomFilter the bit vector probed at NumHashes double-hashed places   *)
(* A call that hits unimplemented!() panics; the thread unwinds and no     *)
(* further call is made on the container.                                  *)
(***************************************************************************)
EXTENDS Integers, Sequences, FiniteSets, TLC

\* ---------------------------------------------------------------- bounds
MaxElem == 1            \* elements are 0 .. MaxElem
MaxHint == 2            \* capacity hints are 0 .. MaxHint
NumBits == 3            \* bits of the bloom filter under test
NumHashes == 2          \* probes per element of the bloom filter

\* The longest run of calls a property of the test suite looks at
\* (test::remove_twice); the history keeps that many calls.
RemoveTwice == <<"insert", "remove", "remove">>
HistLen == Len(RemoveTwice)

Elems == 0 .. MaxElem
Hints == 0 .. MaxHint
Kinds == {"hash", "bit", "btree", "bloom"}
ExactKinds == {"hash", "bit", "btree"}
NoEl == -1
NoRet == "none"

VARIABLES kind,     \* the concrete type behind the Setlike reference
          set,      \* the container
          twin,     \* a second container of the same type (hint comparison)
          model,    \* ghost: inserted and not removed since
          ever,     \* ghost: inserted at any point since construction
          hist      \* ghost: the last HistLen calls and their outcomes
vars == <<kind, set, twin, model, ever, hist>>

\* A call's outcome: it returns a value, or it panics (unimplemented!).
Ok(s, r) == [out |-> "ok", ret |-> r, set |-> s]
Panic(s) == [out |-> "panic", ret |-> NoRet, set |-> s]

RECURSIVE CountOnes(_)
CountOnes(bits) ==
  IF bits = <<>> THEN 0
  ELSE (IF Head(bits) THEN 1 ELSE 0) + CountOnes(Tail(bits))

Zeros(n) == [i \in 1 .. n |-> FALSE]

\* ------------------------------------------------------------- HashSet
HashSetContains(s, el) == el \in s.items

HashSetLen(s) == Cardinality(s.items)

\* mutant: a table that refuses an item once it is full
HashSetInsertFull(s, el) ==
  IF el \in s.items \/ Cardinality(s.items) >= s.capacity THEN Ok(s, FALSE)
  ELSE Ok([s EXCEPT !.items = @ \cup {el}], TRUE)

\* mutant: insert that answers as if the item were always new
HashSetInsertReplace(s, el) ==
  LET cap == IF Cardinality(s.items) < s.capacity THEN s.capacity
             ELSE IF s.capacity = 0 THEN 1 ELSE 2 * s.capacity
  IN Ok([capacity |-> cap, items |-> s.items \cup {el}], TRUE)

\* insert reserves room for one more item before storing it
HashSetInsert(s, el) ==
  IF el \in s.items THEN Ok(s, FALSE)
  ELSE LET cap == IF Cardinality(s.items) < s.capacity THEN s.capacity
                  ELSE IF s.capacity = 0 THEN 1 ELSE 2 * s.capacity
       IN Ok([capacity |-> cap, items |-> s.items \cup {el}], TRUE)

\* mutant: remove that reports the item but leaves it in place
HashSetRemoveKeep(s, el) == Ok(s, el \in s.items)

HashSetRemove(s, el) ==
  IF el \in s.items THEN Ok([s EXCEPT !.items = @ \ {el}], TRUE)
  ELSE Ok(s, FALSE)

HashSetWithCapacity(k) == Ok([capacity |-> k, items |-> {}], NoRet)

\* -------------------------------------------------------------- BitSet
BitSetContains(s, i) == i < Len(s) /\ s[i + 1]

\* mutant: the length of the bit vector instead of its population count
BitSetLenBits(s) == Len(s)

BitSetLen(s) == CountOnes(s)

\* mutant: insert that does not grow the bit vector
BitSetInsertNoGrow(s, i) ==
  IF BitSetContains(s, i) \/ i >= Len(s) THEN Ok(s, FALSE)
  ELSE Ok([s EXCEPT ![i + 1] = TRUE], TRUE)

\* insert grows the bit vector when the index is past its end
BitSetInsert(s, i) ==
  IF BitSetContains(s, i) THEN Ok(s, FALSE)
  ELSE LET grown == IF i >= Len(s) THEN s \o Zeros(i - Len(s) + 1) ELSE s
       IN Ok([grown EXCEPT ![i + 1] = TRUE], TRUE)

BitSetRemove(s, i) ==
  IF ~BitSetContains(s, i) THEN Ok(s, FALSE)
  ELSE Ok([s EXCEPT ![i + 1] = FALSE], TRUE)

BitSetWithCapacity(k) == Ok(Zeros(k), NoRet)

\* ------------------------------------------------------------ BTreeSet
BTreeSetContains(s, el) == \E i \in 1 .. Len(s) : s[i] = el

BTreeSetLen(s) == Len(s)

\* mutant: insert without the check for an equal key
BTreeSetInsertDup(s, el) ==
  LET n == Cardinality({i \in 1 .. Len(s) : s[i] < el})
  IN Ok(SubSeq(s, 1, n) \o <<el>> \o SubSeq(s, n + 1, Len(s)), TRUE)

\* the key goes in front of the first larger key
BTreeSetInsert(s, el) ==
  IF BTreeSetContains(s, el) THEN Ok(s, FALSE)
  ELSE LET n == Cardinality({i \in 1 .. Len(s) : s[i] < el})
       IN Ok(SubSeq(s, 1, n) \o <<el>> \o SubSeq(s, n + 1, Len(s)), TRUE)

BTreeSetRemove(s, el) ==
  IF ~BTreeSetContains(s, el) THEN Ok(s, FALSE)
  ELSE Ok(SelectSeq(s, LAMBDA x : x # el), TRUE)

BTreeSetWithCapacity(k) == Ok(<<>>, NoRet)

\* --------------------------------------------------------- BloomFilter
\* the two hashers of the filter (R and S are opaque BuildHashers: two fixed
\* functions that let distinct elements share probed bits), and the places
\* probed for an element: (h1 + j * h2) mod the number of bits
Hash1(el) == el
Hash2(el) == el + 1
BloomIdx(s, el) == {((Hash1(el) + j * Hash2(el)) % Len(s)) + 1 : j \in 0 .. NumHashes - 1}

BloomContains(s, el) == \A p \in BloomIdx(s, el) : s[p]

BloomLen(s) == Panic(s)

\* mutant: insert that sets the first probed bit only
BloomInsertFirstProbe(s, el) ==
  Ok([p \in 1 .. Len(s) |-> s[p] \/ p = (Hash1(el) % Len(s)) + 1], ~BloomContains(s, el))

\* mutant: insert that always reports a new element
BloomInsertAlwaysNew(s, el) ==
  Ok([p \in 1 .. Len(s) |-> s[p] \/ p \in BloomIdx(s, el)], TRUE)

\* ASMS::insert sets every probed bit; true when one of them was clear
BloomInsert(s, el) ==
  Ok([p \in 1 .. Len(s) |-> s[p] \/ p \in BloomIdx(s, el)], ~BloomContains(s, el))

\* mutant: remove that quietly reports the element as absent
BloomRemoveSilent(s, el) == Ok(s, FALSE)

BloomRemove(s, el) == Panic(s)

BloomWithCapacity(s, k) == Panic(s)

\* the bloom-specific constructor
BloomNew == Zeros(NumBits)

\* ------------------------------------------------ the Setlike interface
Contains(k, s, el) ==
  CASE k = "hash" -> HashSetContains(s, el)
    [] k = "bit" -> BitSetContains(s, el)
    [] k = "btree" -> BTreeSetContains(s, el)
    [] k = "bloom" -> BloomContains(s, el)

ContainsCall(k, s, el) == Ok(s, Contains(k, s, el))

InsertCall(k, s, el) ==
  CASE k = "hash" -> HashSetInsert(s, el)
    [] k = "bit" -> BitSetInsert(s, el)
    [] k = "btree" -> BTreeSetInsert(s, el)
    [] k = "bloom" -> BloomInsert(s, el)

RemoveCall(k, s, el) ==
  CASE k = "hash" -> HashSetRemove(s, el)
    [] k = "bit" -> BitSetRemove(s, el)
    [] k = "btree" -> BTreeSetRemove(s, el)
    [] k = "bloom" -> BloomRemove(s, el)

LenCall(k, s) ==
  CASE k = "hash" -> Ok(s, HashSetLen(s))
    [] k = "bit" -> Ok(s, BitSetLen(s))
    [] k = "btree" -> Ok(s, BTreeSetLen(s))
    [] k = "bloom" -> BloomLen(s)

WithCapacityCall(k, s, n) ==
  CASE k = "hash" -> HashSetWithCapacity(n)
    [] k = "bit" -> BitSetWithCapacity(n)
    [] k = "btree" -> BTreeSetWithCapacity(n)
    [] k = "bloom" -> BloomWithCapacity(s, n)

\* the container right after its native constructor
NewSet(k) ==
  CASE k = "hash" -> [capacity |-> 0, items |-> {}]
    [] k = "bit" -> <<>>
    [] k = "btree" -> <<>>
    [] k = "bloom" -> BloomNew

\* ------------------------------------------------------------- actions
Panicked == hist # <<>> /\ hist[Len(hist)].out = "panic"

Push(h, r) == IF Len(h) < HistLen THEN Append(h, r) ELSE Append(Tail(h), r)

Call(op, el, res) ==
  [op |-> op, el |-> el, out |-> res.out, ret |-> res.ret,
   pre |-> set, post |-> res.set, first |-> el \notin ever]

Init ==
  /\ kind \in Kinds
  /\ set = NewSet(kind)
  /\ twin = NewSet(kind)
  /\ model = {}
  /\ ever = {}
  /\ hist = <<>>

Insert(el) ==
  LET res == InsertCall(kind, set, el) IN
  /\ ~Panicked
  /\ set' = res.set
  /\ hist' = Push(hist, Call("insert", el, res))
  /\ model' = model \cup {el}
  /\ ever' = ever \cup {el}
  /\ UNCHANGED <<kind, twin>>

Remove(el) ==
  LET res == RemoveCall(kind, set, el) IN
  /\ ~Panicked
  /\ set' = res.set
  /\ hist' = Push(hist, Call("remove", el, res))
  /\ model' = IF res.out = "ok" THEN model \ {el} ELSE model
  /\ UNCHANGED <<kind, twin, ever>>

DoContains(el) ==
  LET res == ContainsCall(kind, set, el) IN
  /\ ~Panicked
  /\ set' = res.set
  /\ hist' = Push(hist, Call("contains", el, res))
  /\ UNCHANGED <<kind, twin, model, ever>>

DoLen ==
  LET res == LenCall(kind, set) IN
  /\ ~Panicked
  /\ set' = res.set
  /\ hist' = Push(hist, Call("len", NoEl, res))
  /\ UNCHANGED <<kind, twin, model, ever>>

\* Self::with_capacity(k): the caller drops the old container for the new
\* one, whose history starts with this call
WithCapacity(k) ==
  LET res == WithCapacityCall(kind, set, k) IN
  /\ ~Panicked
  /\ set' = res.set
  /\ hist' = IF res.out = "ok" THEN <<Call("with_capacity", k, res)>>
             ELSE Push(hist, Call("with_capacity", k, res))
  /\ model' = IF res.out = "ok" THEN {} ELSE model
  /\ ever' = IF res.out = "ok" THEN {} ELSE ever
  /\ UNCHANGED <<kind, twin>>

Next ==
  \/ \E el \in Elems : Insert(el)
  \/ \E el \in Elems : Remove(el)
  \/ \E el \in Elems : DoContains(el)
  \/ DoLen
  \/ \E k \in Hints : WithCapacity(k)

Spec == Init /\ [][Next]_vars

\* ------------------------------------- two containers, two capacity hints
\* The same calls are made on two containers of one exact type that were
\* created by with_capacity with two hints; each call's two outcomes are kept.
PairCall(op, el, res, tres) ==
  [op |-> op, el |-> el, out |-> res.out, ret |-> res.ret,
   tout |-> tres.out, tret |-> tres.ret, pre |-> set, tpre |-> twin]

InitHint ==
  /\ kind \in ExactKinds
  /\ \E k1 \in Hints : set = WithCapacityCall(kind, NewSet(kind), k1).set
  /\ \E k2 \in Hints : twin = WithCapacityCall(kind, NewSet(kind), k2).set
  /\ model = {}
  /\ ever = {}
  /\ hist = <<>>

PairInsert(el) ==
  LET res == InsertCall(kind, set, el)
      tres == InsertCall(kind, twin, el) IN
  /\ set' = res.set
  /\ twin' = tres.set
  /\ hist' = <<PairCall("insert", el, res, tres)>>
  /\ model' = model \cup {el}
  /\ ever' = ever \cup {el}
  /\ UNCHANGED kind

PairRemove(el) ==
  LET res == RemoveCall(kind, set, el)
      tres == RemoveCall(kind, twin, el) IN
  /\ set' = res.set
  /\ twin' = tres.set
  /\ hist' = <<PairCall("remove", el, res, tres)>>
  /\ model' = model \ {el}
  /\ UNCHANGED <<kind, ever>>

PairContains(el) ==
  LET res == ContainsCall(kind, set, el)
      tres == ContainsCall(kind, twin, el) IN
  /\ set' = res.set
  /\ twin' = tres.set
  /\ hist' = <<PairCall("contains", el, res, tres)>>
  /\ UNCHANGED <<kind, model, ever>>

PairLen ==
  LET res == LenCall(kind, set)
      tres == LenCall(kind, twin) IN
  /\ set' = res.set
  /\ twin' = tres.set
  /\ hist' = <<PairCall("len", NoEl, res, tres)>>
  /\ UNCHANGED <<kind, model, ever>>

NextHint ==
  \/ \E el \in Elems : PairInsert(el)
  \/ \E el \in Elems : PairRemove(el)
  \/ \E el \in Elems : PairContains(el)
  \/ PairLen

SpecHint == InitHint /\ [][NextHint]_vars

\* ------------------------------------------------------------ properties
Last == hist[Len(hist)]
Called(op) == hist # <<>> /\ Last.op = op /\ Last.out = "ok"
Size(k, s) == LenCall(k, s).ret
SameContents(k, s, t) == \A el \in Elems : Contains(k, s, el) = Contains(k, t, el)

\* C1: the hash, ordered and bit-vector containers behave as a mathematical
\* set: contains(e) is true exactly for the elements inserted and not removed
\* since, and len() is the number of those elements.
ExactContainersAreSets ==
  (kind \in ExactKinds /\ ~Panicked) =>
    /\ \A el \in Elems : Contains(kind, set, el) <=> el \in model
    /\ Size(kind, set) = Cardinality(model)

\* an element was put back, another call removed an element, one is still in
ExactContainersAreSetsWitness ==
  /\ kind = "bit"
  /\ Len(hist) = HistLen
  /\ hist[1].op = "insert" /\ hist[1].ret = FALSE
  /\ hist[2].op = "remove" /\ hist[2].ret = TRUE
  /\ hist[3].op = "insert" /\ hist[3].ret = TRUE
  /\ Cardinality(model) = MaxElem + 1

\* C2: right after insert(u), contains(u) is true, whether or not u was
\* present before the call.
ContainsAfterInsert ==
  Called("insert") => /\ set = Last.post
                      /\ Contains(kind, set, Last.el)

\* insert(u) of an element the container held already, and of a new one
ContainsAfterInsertWitness ==
  /\ Len(hist) >= 2
  /\ Called("insert") /\ Last.ret = FALSE
  /\ hist[Len(hist) - 1].op = "insert" /\ hist[Len(hist) - 1].ret = TRUE
  /\ kind = "hash"
  /\ Cardinality(set.items) = set.capacity

\* C3: where remove is supported, insert(u) then remove(u) makes remove
\* return true and leaves contains(u) false, and a second remove(u) right
\* after returns false.
InsertThenRemove(i) ==
  /\ hist[i].op = "insert" /\ hist[i].out = "ok"
  /\ hist[i + 1].op = "remove" /\ hist[i + 1].out = "ok"
  /\ hist[i + 1].el = hist[i].el

RemoveReturnsTrueOnce ==
  \A i \in 1 .. Len(hist) - 1 :
    InsertThenRemove(i) =>
      /\ hist[i + 1].ret = TRUE
      /\ ~Contains(kind, hist[i + 1].post, hist[i].el)
      /\ (i + 2 <= Len(hist) /\ hist[i + 2].op = "remove" /\ hist[i + 2].el = hist[i].el)
           => hist[i + 2].ret = FALSE

\* insert(u) of a present u, remove(u), remove(u), other elements staying in
RemoveReturnsTrueOnceWitness ==
  /\ kind = "btree"
  /\ Len(hist) = HistLen
  /\ InsertThenRemove(1)
  /\ hist[1].ret = FALSE
  /\ hist[3].op = "remove" /\ hist[3].el = hist[1].el
  /\ model # {}

\* C4: insert(u) of an element that is present returns false and leaves
\* size() and the contents as they were.
SecondInsertChangesNothing ==
  (Called("insert") /\ Contains(kind, Last.pre, Last.el)) =>
    /\ Last.ret = FALSE
    /\ SameContents(kind, Last.pre, Last.post)
    /\ kind \in ExactKinds => Size(kind, Last.post) = Size(kind, Last.pre)

\* the same element inserted twice in a row into a container holding others
SecondInsertChangesNothingWitness ==
  /\ Len(hist) >= 2
  /\ Called("insert") /\ Contains(kind, Last.pre, Last.el)
  /\ hist[Len(hist) - 1].op = "insert" /\ hist[Len(hist) - 1].el = Last.el
  /\ hist[Len(hist) - 1].ret = TRUE
  /\ kind = "hash"
  /\ Size(kind, set) > 1

\* C5: when insert(u) returns true, size() right after is size() right
\* before plus one.
LenIncrements ==
  (Called("insert") /\ Last.ret = TRUE /\ kind \in ExactKinds) =>
    Size(kind, Last.post) = Size(kind, Last.pre) + 1

\* a successful insert below the end of a bit vector that holds other bits
LenIncrementsWitness ==
  /\ kind = "bit"
  /\ Called("insert") /\ Last.ret = TRUE
  /\ Last.el + 1 < Len(Last.pre)
  /\ Size(kind, Last.pre) > 0

\* C6 as stated: remove(e) and len() on the probabilistic filter come back
\* to the caller as an UnsupportedOperation error value, not as a panic.
UnsupportedIsAnErrorValue ==
  (kind = "bloom" /\ hist # <<>> /\ Last.op \in {"remove", "len"}) =>
    Last.out = "err"

\* C6 as amended: remove(e) and len() on the probabilistic filter fail
\* explicitly by panicking: no value is returned and the filter is untouched.
UnsupportedPanics ==
  (kind = "bloom" /\ hist # <<>> /\ Last.op \in {"remove", "len"}) =>
    /\ Last.out = "panic"
    /\ Last.ret = NoRet
    /\ set = Last.pre

\* remove of an element the filter reports as present
UnsupportedPanicsWitness ==
  /\ kind = "bloom"
  /\ hist # <<>> /\ Last.op = "remove" /\ Last.out = "panic"
  /\ Contains(kind, Last.pre, Last.el)

\* C7: with_capacity(k) never fails, for any container kind and any k, and
\* returns a new empty container.
WithCapacityNeverFails ==
  (hist # <<>> /\ Last.op = "with_capacity") =>
    /\ Last.out = "ok"
    /\ \A el \in Elems : ~Contains(kind, set, el)
    /\ kind \in ExactKinds => Size(kind, set) = 0

\* C8: on the probabilistic filter, contains(e) is true for every element
\* inserted at any earlier point (no false negatives).
NoFalseNegatives ==
  (kind = "bloom" /\ ~Panicked) => \A el \in ever : Contains(kind, set, el)

\* two inserts later, the filter also reports an element never inserted
NoFalseNegativesWitness ==
  /\ kind = "bloom"
  /\ ~Panicked
  /\ Cardinality(ever) >= 1
  /\ \E el \in Elems \ ever : Contains(kind, set, el)
  /\ Called("contains") /\ Last.el \in ever

\* C9: the capacity hint is an optimization only: two containers created by
\* with_capacity with two hints return the same results for contains, insert,
\* remove and len under the same calls, bit-vector inserts past the hint
\* included.
HintIsOnlyAnOptimization ==
  /\ hist # <<>> => (Last.out = Last.tout /\ Last.ret = Last.tret)
  /\ SameContents(kind, set, twin)
  /\ Size(kind, set) = Size(kind, twin)

\* an insert past the end of one bit vector and inside the other
HintIsOnlyAnOptimizationWitness ==
  /\ kind = "bit"
  /\ hist # <<>> /\ Last.op = "insert"
  /\ Last.el >= Len(Last.pre)
  /\ Last.el < Len(Last.tpre)
  /\ Len(set) # Len(twin)

\* C10, first half: insert(u) returns true exactly when contains(u) was
\* false right before the call.
InsertReturnsNotContained ==
  Called("insert") => (Last.ret = TRUE <=> ~Contains(kind, Last.pre, Last.el))

\* C10 as stated: for every container, the probabilistic filter included,
\* insert(u) returns true exactly when contains(u) was false before, so the
\* first insert of an element never inserted returns true.
FirstInsertAlwaysTrue ==
  /\ InsertReturnsNotContained
  /\ (Called("insert") /\ Last.first) => Last.ret = TRUE

\* C10 as amended: the equivalence holds for every container; the first
\* insert of an element never inserted returns true on the hash, ordered and
\* bit-vector containers.
FirstInsertTrueWhenExact ==
  /\ InsertReturnsNotContained
  /\ (Called("insert") /\ Last.first /\ kind \in ExactKinds) => Last.ret = TRUE

\* the first insert of an element the filter reported already: it returns false
FirstInsertTrueWhenExactWitness ==
  /\ kind = "bloom"
  /\ Called("insert") /\ Last.first
  /\ Contains(kind, Last.pre, Last.el)
  /\ Last.ret = FALSE
====
